---- MODULE Spec2Model ----
(***************************************************************************)
(* Model of the timberjack benchmark analysis scripts:                     *)
(*   benchmark/analyze_results.py      (main and its stages)               *)
(*   benchmark_data/generate_charts.py (the stand-alone chart script)      *)
(*                                                                         *)
(* A run is a state machine: the input table `raw` is what read_csv parsed *)
(* from benchmark_results.csv, `pc` is the position of the running script, *)
(* and every stage is one action.  An uncaught exception ends the run      *)
(* (pc = "failed") and is recorded in `error`.                             *)
(*                                                                         *)
(* Numbers.  Floating-point values are modelled as exact non-negative      *)
(* extended rationals <<n, d>>: d > 0 is the rational n/d in lowest terms, *)
(* <<1, 0>> is +inf and <<0, 0>> is NaN.  This is the arithmetic of the    *)
(* numpy scalars and columns the scripts divide (x/0 = inf, 0/0 = nan, a   *)
(* RuntimeWarning and no exception).  The one division on plain Python     *)
(* floats, in the row-wise lambdas of generate_comparative_analysis,       *)
(* raises ZeroDivisionError on a zero divisor and is modelled so.          *)
(*                                                                         *)
(* Strings.  A log identifier is a sequence of tokens in which "_" and "." *)
(* are the delimiters, so that str.split is computed, not assumed.         *)
(***************************************************************************)
EXTENDS Integers, Sequences, FiniteSets, TLC

VARIABLES script, raw, df, pc, error, pivot_df, comparative_data, files

vars == <<script, raw, df, pc, error, pivot_df, comparative_data, files>>

(***************************************************************************)
(* Bounds of the model                                                     *)
(***************************************************************************)
MaxRows == 3

(***************************************************************************)
(* Extended non-negative rationals                                         *)
(***************************************************************************)
RECURSIVE GCD(_, _)
GCD(a, b) == IF b = 0 THEN a ELSE GCD(b, a % b)

NaN == <<0, 0>>
Inf == <<1, 0>>

Norm(n, d) ==
    IF d = 0 THEN (IF n = 0 THEN NaN ELSE Inf)
    ELSE LET g == GCD(n, d) IN <<n \div g, d \div g>>

Num(n) == <<n, 1>>

IsNaN(a) == a = NaN
IsFinite(a) == a[2] # 0

\* a / b on floats (numpy semantics: no exception)
RDiv(a, b) == Norm(a[1] * b[2], a[2] * b[1])

\* a + b on floats
RAdd(a, b) ==
    IF IsNaN(a) \/ IsNaN(b) THEN NaN
    ELSE IF ~IsFinite(a) \/ ~IsFinite(b) THEN Inf
    ELSE Norm(a[1] * b[2] + b[1] * a[2], a[2] * b[2])

\* a < b on floats (False when either is NaN)
RLess(a, b) == ~IsNaN(a) /\ ~IsNaN(b) /\ a[1] * b[2] < b[1] * a[2]

RECURSIVE Pow10(_)
Pow10(k) == IF k = 0 THEN 1 ELSE 10 * Pow10(k - 1)

\* format(a, ".<digits>f"): the decimal with `digits` places nearest to a,
\* ties to even, as the scaled integer a * 10^digits; "inf" and "nan"
\* format as themselves.
Fmt(a, digits) ==
    IF IsNaN(a) THEN [text |-> "nan", scaled |-> 0]
    ELSE IF ~IsFinite(a) THEN [text |-> "inf", scaled |-> 0]
    ELSE LET num == a[1] * Pow10(digits)
             q   == num \div a[2]
             r2  == 2 * (num % a[2])
             up  == r2 > a[2] \/ (r2 = a[2] /\ q % 2 = 1)
         IN [text |-> "num", scaled |-> IF up THEN q + 1 ELSE q]

(***************************************************************************)
(* Sequences                                                               *)
(***************************************************************************)
Range(s) == {s[i] : i \in DOMAIN s}

SeqsUpTo(S, n) == UNION {[1..k -> S] : k \in 0..n}

\* s[mask]: the elements of s at the positions `keep`, in order
Select(s, keep) ==
    LET F[i \in 0..Len(s)] ==
            IF i = 0 THEN <<>>
            ELSE IF i \in keep THEN Append(F[i - 1], s[i]) ELSE F[i - 1]
    IN F[Len(s)]

\* Series.unique(): the distinct values in order of first appearance
Unique(s) ==
    LET F[i \in 0..Len(s)] ==
            IF i = 0 THEN <<>>
            ELSE IF s[i] \in Range(F[i - 1]) THEN F[i - 1]
                 ELSE Append(F[i - 1], s[i])
    IN F[Len(s)]

\* A stable sort of s; less[i, j] says that s[i] sorts before s[j]
StableSort(s, less) ==
    LET n == Len(s)
        pos(i) == Cardinality({j \in 1..n :
                      less[j, i] \/ (~less[i, j] /\ j < i)}) + 1
    IN [k \in 1..n |-> s[CHOOSE i \in 1..n : pos(i) = k]]

(***************************************************************************)
(* Strings                                                                 *)
(***************************************************************************)
\* str.split(delim): the segments between the delimiters (always >= 1)
Split(s, delim) ==
    LET F[i \in 0..Len(s)] ==
            IF i = 0 THEN << <<>> >>
            ELSE LET done == F[i - 1]
                     k    == Len(done)
                 IN IF s[i] = delim THEN Append(done, <<>>)
                    ELSE [done EXCEPT ![k] = Append(done[k], s[i])]
    IN F[Len(s)]

\* str comparison on the tool names of the model
ToolOrd(t) ==
    CASE t = "awk" -> 1
      [] t = "grep" -> 2
      [] t = "timber" -> 3

\* str comparison on the size labels of the model ("" < "100k" < "10k" < ...)
LabelOrd(name) ==
    CASE name = <<>> -> 0
      [] name = <<"100k">> -> 1
      [] name = <<"10k">> -> 2
      [] name = <<"1m">> -> 3
      [] name = <<"5k">> -> 4

(***************************************************************************)
(* The input: benchmark_results.csv as read_csv parsed it                  *)
(***************************************************************************)
Log(token) == <<"bench", "_", token, ".", "json">>
BadLog == <<"bench", ".", "json">>

Measurements(tools, logs, times, mems) ==
    [tool : tools, log : logs, time_seconds : times, memory_mb : mems]

\* Rows that exercise the loader: every size token, mapped or not, and an
\* identifier without "_"
LoaderRows ==
    Measurements({"grep", "timber"},
                 {Log("10k"), Log("100k"), Log("1m"), Log("5k"), BadLog},
                 {1}, {5})

\* Rows that exercise ranking and the comparative ratios: three tools in one
\* bucket, equal and unequal values
RankRows ==
    Measurements({"awk", "grep", "timber"}, {Log("10k")}, {1, 2}, {5, 8})

\* Rows that exercise scaling and the ratios against timber: two tools over
\* the three buckets, with zero times
RatioRows ==
    Measurements({"timber"}, {Log("10k"), Log("100k"), Log("1m")},
                 {0, 1, 10}, {5})
        \cup Measurements({"grep"}, {Log("10k"), Log("100k"), Log("1m")},
                          {0, 1}, {5})

\* The tables main is run on
Inputs ==
    SeqsUpTo(LoaderRows, MaxRows) \cup SeqsUpTo(RankRows, MaxRows)
        \cup SeqsUpTo(RatioRows, MaxRows)

\* The tables generate_charts.py is run on (it reads tool, log and
\* time_seconds only)
ChartInputs == SeqsUpTo(LoaderRows, MaxRows)

(***************************************************************************)
(* load_data                                                               *)
(***************************************************************************)
size_mapping ==
    [name \in {<<"10k">>, <<"100k">>, <<"1m">>} |->
        CASE name = <<"10k">> -> 10000
          [] name = <<"100k">> -> 100000
          [] name = <<"1m">> -> 1000000]

size_order == << <<"10k">>, <<"100k">>, <<"1m">> >>

\* x.split('_')[1] raises IndexError when there is no second segment
HasSizeSegment(log) == Len(Split(log, "_")) >= 2

\* lambda x: x.split('_')[1].split('.')[0]
SizeName(log) == Split(Split(log, "_")[2], ".")[1]

\* Series.map(dict): NaN for a key the dict does not hold
MapSize(name) ==
    IF name \in DOMAIN size_mapping THEN Num(size_mapping[name]) ELSE NaN

\* the order of sort_values on a float column: ascending, NaN last
NaNLastLess(a, b) == (~IsNaN(a) /\ IsNaN(b)) \/ RLess(a, b)

ByToolThenSize(a, b) ==
    \/ ToolOrd(a.tool) < ToolOrd(b.tool)
    \/ a.tool = b.tool /\ NaNLastLess(a.size_numeric, b.size_numeric)

Normalize(row) ==
    [tool |-> row.tool, log |-> row.log, time_seconds |-> row.time_seconds,
     memory_mb |-> row.memory_mb, size_name |-> SizeName(row.log),
     size_numeric |-> MapSize(SizeName(row.log))]

\* df.sort_values(['tool', 'size_numeric'])
SortByToolThenSize(frame) ==
    StableSort(frame, [i \in DOMAIN frame, j \in DOMAIN frame |->
                          ByToolThenSize(frame[i], frame[j])])

load_data(table) ==
    SortByToolThenSize([i \in DOMAIN table |-> Normalize(table[i])])

(***************************************************************************)
(* DataFrame.pivot and reindex                                             *)
(***************************************************************************)
\* `keyed` is the frame as pivot reads it: per row its index label, its
\* column and its value
HasDuplicateKey(keyed) ==
    \E i, j \in DOMAIN keyed :
        i < j /\ keyed[i].index = keyed[j].index
              /\ keyed[i].column = keyed[j].column

\* pivot(index, columns, values) of a frame without duplicate keys: the index
\* sorted, a cell per (index label, column), NaN where the frame has no row
Pivot(keyed) ==
    LET labels == {keyed[i].index : i \in DOMAIN keyed}
        cols   == {keyed[i].column : i \in DOMAIN keyed}
        sorted == [k \in 1..Cardinality(labels) |->
                      CHOOSE l \in labels :
                          Cardinality({m \in labels :
                                          LabelOrd(m) < LabelOrd(l)}) = k - 1]
    IN [index   |-> sorted,
        columns |-> cols,
        cell    |-> [key \in labels \X cols |->
                        LET at == {i \in DOMAIN keyed :
                                      /\ keyed[i].index = key[1]
                                      /\ keyed[i].column = key[2]}
                        IN IF at = {} THEN NaN
                           ELSE keyed[CHOOSE i \in at : TRUE].value]]

\* DataFrame.reindex(labels): exactly the rows `labels`, in that order; a
\* label the frame lacks becomes a row of NaN, a row not named is dropped
Reindex(table, labels) ==
    [index   |-> labels,
     columns |-> table.columns,
     cell    |-> [key \in Range(labels) \X table.columns |->
                     IF key[1] \in Range(table.index)
                     THEN table.cell[key] ELSE NaN]]

(***************************************************************************)
(* Exceptions, files and chart rendering                                   *)
(***************************************************************************)
NoError == [type |-> "none", stage |-> "none"]

Exception(type, stage) == [type |-> type, stage |-> stage]

\* to_csv / savefig: the file named `name` now holds `content`
Write(fs, name, content) ==
    [n \in DOMAIN fs \cup {name} |-> IF n = name THEN content ELSE fs[n]]

Written(name) == name \in DOMAIN files

Image == <<"png">>

\* The outcomes of a chart rendering (matplotlib is the external sink: it may
\* be unavailable or fail); DataFrame.plot of a frame without columns raises
\* TypeError("no numeric data to plot") whatever the sink does.
RenderOutcomes(table) == IF table.columns = {} THEN {FALSE} ELSE BOOLEAN

(***************************************************************************)
(* main: the stages in call order                                          *)
(***************************************************************************)
Stages ==
    <<"load_data", "generate_time_comparison", "generate_memory_comparison",
      "generate_scaling_analysis", "generate_rankings",
      "generate_timber_specific_analysis", "generate_comparative_analysis">>

StageIndex(stage) == CHOOSE i \in DOMAIN Stages : Stages[i] = stage

\* the statement main runs after `stage` returns
Returned(stage) ==
    IF StageIndex(stage) = Len(Stages) THEN "done"
    ELSE Stages[StageIndex(stage) + 1]

\* a plausible change: each stage wrapped in try/except, main carries on
Raised_Continues(stage) == Returned(stage)

\* main has no try/except: an exception in `stage` propagates out of main
Raised(stage) == "failed"

(***************************************************************************)
(* generate_time_comparison / generate_memory_comparison                   *)
(***************************************************************************)
TimeOf(r) == Num(r.time_seconds)
MemoryOf(r) == Num(r.memory_mb)

\* the frame as df.pivot(index='size_name', columns='tool', values=metric)
\* reads it
KeyedBySize(frame, metric) ==
    [i \in DOMAIN frame |->
        [index |-> frame[i].size_name, column |-> frame[i].tool,
         value |-> IF metric = "time_seconds" THEN TimeOf(frame[i])
                   ELSE MemoryOf(frame[i])]]

\* a plausible slip: pivot_table, which aggregates repeated keys silently
PivotRaises_Never(frame) == FALSE

\* df.pivot(...) raises ValueError ("Index contains duplicate entries, cannot
\* reshape") on a repeated (size_name, tool)
PivotRaises(frame) == HasDuplicateKey(KeyedBySize(frame, "time_seconds"))

\* pivot_df = df.pivot(...).reindex(size_order)
ComparisonTable(frame, metric) ==
    Reindex(Pivot(KeyedBySize(frame, metric)), size_order)

(***************************************************************************)
(* generate_scaling_analysis                                               *)
(***************************************************************************)
\* df[df['tool'] == tool]
OfTool(frame, tool) == Select(frame, {i \in DOMAIN frame : frame[i].tool = tool})

\* df[df['size_name'] == size]
OfSize(frame, size) ==
    Select(frame, {i \in DOMAIN frame : frame[i].size_name = size})

\* df['tool'].unique() and df['size_name'].unique()
Tools(frame) == Unique([i \in DOMAIN frame |-> frame[i].tool])
SizeNames(frame) == Unique([i \in DOMAIN frame |-> frame[i].size_name])

\* tool_data.sort_values('size_numeric')
SortBySize(frame) ==
    StableSort(frame, [i \in DOMAIN frame, j \in DOMAIN frame |->
                          NaNLastLess(frame[i].size_numeric,
                                      frame[j].size_numeric)])

\* the dict appended for tool_data.iloc[i-1] (prev) and tool_data.iloc[i] (curr)
ScalingEntry(tool, prev, curr) ==
    LET size_ratio == RDiv(curr.size_numeric, prev.size_numeric)
        time_ratio == RDiv(Num(curr.time_seconds), Num(prev.time_seconds))
        scaling_factor == RDiv(time_ratio, size_ratio)
    IN [Tool |-> tool,
        Size_Change |-> <<prev.size_name, curr.size_name>>,
        Time_Increase |-> Fmt(time_ratio, 2),
        Scaling_Factor |-> Fmt(scaling_factor, 3)]

\* a plausible slip: every size is compared with the tool's smallest one
ToolScaling_AgainstFirst(frame, tool) ==
    LET tool_data == SortBySize(OfTool(frame, tool))
    IN IF Len(tool_data) >= 2
       THEN [i \in 1..(Len(tool_data) - 1) |->
                ScalingEntry(tool, tool_data[1], tool_data[i + 1])]
       ELSE <<>>

ToolScaling(frame, tool) ==
    LET tool_data == SortBySize(OfTool(frame, tool))
    IN IF Len(tool_data) >= 2
       THEN [i \in 1..(Len(tool_data) - 1) |->
                ScalingEntry(tool, tool_data[i], tool_data[i + 1])]
       ELSE <<>>

ScalingData(frame) ==
    LET tools == Tools(frame)
        F[k \in 0..Len(tools)] ==
            IF k = 0 THEN <<>> ELSE F[k - 1] \o ToolScaling(frame, tools[k])
    IN F[Len(tools)]

(***************************************************************************)
(* generate_rankings                                                       *)
(***************************************************************************)
\* a plausible slip: rank(method='min'), ties all get the lowest position
Rank_MethodMin(values, i) ==
    Num(Cardinality({j \in DOMAIN values : RLess(values[j], values[i])}) + 1)

\* Series.rank(): ascending, 1-based, method='average'
Rank(values, i) ==
    LET less  == Cardinality({j \in DOMAIN values : RLess(values[j], values[i])})
        equal == Cardinality({j \in DOMAIN values : values[j] = values[i]})
    IN Norm(2 * less + equal + 1, 2)

CombinedScore(time_rank, memory_rank) ==
    RDiv(RAdd(time_rank, memory_rank), Num(2))

RankingTable(frame, size) ==
    LET size_df == OfSize(frame, size)
        times   == [i \in DOMAIN size_df |-> TimeOf(size_df[i])]
        mems    == [i \in DOMAIN size_df |-> MemoryOf(size_df[i])]
        ranked  == [i \in DOMAIN size_df |->
                     [Tool |-> size_df[i].tool,
                      Time |-> Fmt(times[i], 3),
                      Memory |-> Fmt(mems[i], 2),
                      Time_Rank |-> Rank(times, i),
                      Memory_Rank |-> Rank(mems, i),
                      Combined_Score |->
                          CombinedScore(Rank(times, i), Rank(mems, i))]]
    IN StableSort(ranked, [i \in DOMAIN ranked, j \in DOMAIN ranked |->
                              RLess(ranked[i].Combined_Score,
                                    ranked[j].Combined_Score)])

RankingFile(size) == <<"ranking_">> \o size \o <<".csv">>

\* the files written by the loop over df['size_name'].unique()
WriteRankings(fs, frame) ==
    LET sizes == Range(SizeNames(frame))
        names == {RankingFile(size) : size \in sizes}
    IN [n \in DOMAIN fs \cup names |->
           IF n \in names
           THEN RankingTable(frame, CHOOSE size \in sizes : RankingFile(size) = n)
           ELSE fs[n]]

(***************************************************************************)
(* generate_timber_specific_analysis                                       *)
(***************************************************************************)
TimberData(frame) == OfTool(frame, "timber")

TimberAnalysis(frame) ==
    LET timber_data == TimberData(frame)
    IN [i \in DOMAIN timber_data |->
           [File_Size |-> timber_data[i].size_name,
            Time |-> Fmt(TimeOf(timber_data[i]), 3),
            Memory |-> Fmt(MemoryOf(timber_data[i]), 2),
            Lines_Per_Second |->
                Fmt(RDiv(timber_data[i].size_numeric, TimeOf(timber_data[i])), 0),
            Lines_Per_MB |->
                Fmt(RDiv(timber_data[i].size_numeric, MemoryOf(timber_data[i])), 0)]]

(***************************************************************************)
(* generate_comparative_analysis                                           *)
(***************************************************************************)
\* the dict appended for `row` of the bucket `size` whose first timber row is
\* `timber`
ComparativeEntry(size, timber, row) ==
    [File_Size |-> size,
     Tool |-> row.tool,
     Time_Ratio |-> RDiv(TimeOf(timber), TimeOf(row)),
     Memory_Ratio |-> RDiv(MemoryOf(timber), MemoryOf(row)),
     Timber_Time |-> TimeOf(timber),
     Tool_Time |-> TimeOf(row),
     Timber_Memory |-> MemoryOf(timber),
     Tool_Memory |-> MemoryOf(row)]

\* a plausible slip: the rows of timber itself are compared too
BucketEntries_AllRows(frame, size) ==
    LET size_df == OfSize(frame, size)
        timber  == OfTool(size_df, "timber")
    IN IF Len(timber) = 0 THEN <<>>
       ELSE [i \in DOMAIN size_df |-> ComparativeEntry(size, timber[1], size_df[i])]

\* one pass of the loop over size_names: nothing when the bucket has no
\* timber row (continue), else an entry per row that is not timber's
BucketEntries(frame, size) ==
    LET size_df == OfSize(frame, size)
        timber  == OfTool(size_df, "timber")
        others  == Select(size_df,
                          {i \in DOMAIN size_df : size_df[i].tool # "timber"})
    IN IF Len(timber) = 0 THEN <<>>
       ELSE [i \in DOMAIN others |-> ComparativeEntry(size, timber[1], others[i])]

ComparativeData(frame) ==
    LET size_names == SizeNames(frame)
        F[k \in 0..Len(size_names)] ==
            IF k = 0 THEN <<>> ELSE F[k - 1] \o BucketEntries(frame, size_names[k])
    IN F[Len(size_names)]

\* a plausible slip: x <= 1, so equal times read "1.00x slower"
TimeComparison_AtMost1(ratio) ==
    IF RLess(ratio, Num(1)) \/ ratio = Num(1)
    THEN [phrase |-> "slower", multiplier |-> Fmt(RDiv(Num(1), ratio), 2)]
    ELSE [phrase |-> "faster", multiplier |-> Fmt(ratio, 2)]

\* f"Timber is {1/x:.2f}x slower" if x < 1 else f"Timber is {x:.2f}x faster"
TimeComparison(ratio) ==
    IF RLess(ratio, Num(1))
    THEN [phrase |-> "slower", multiplier |-> Fmt(RDiv(Num(1), ratio), 2)]
    ELSE [phrase |-> "faster", multiplier |-> Fmt(ratio, 2)]

\* f"Timber uses {1/x:.2f}x more memory" if x < 1 else "... less memory"
MemoryComparison(ratio) ==
    IF RLess(ratio, Num(1))
    THEN [phrase |-> "more memory", multiplier |-> Fmt(RDiv(Num(1), ratio), 2)]
    ELSE [phrase |-> "less memory", multiplier |-> Fmt(ratio, 2)]

\* 1/x in the lambdas divides Python floats (the rows DataFrame.apply hands
\* over are object arrays): a ratio of 0.0 raises ZeroDivisionError
FormatRaises(data) ==
    \E i \in DOMAIN data :
        data[i].Time_Ratio = Num(0) \/ data[i].Memory_Ratio = Num(0)

ComparativeTable(data) ==
    [i \in DOMAIN data |->
        [entry |-> data[i],
         Time_Comparison |-> TimeComparison(data[i].Time_Ratio),
         Memory_Comparison |-> MemoryComparison(data[i].Memory_Ratio)]]

\* comparative_df.pivot(index='Tool', columns='File Size', ...) raises on a
\* repeated (Tool, File Size)
ChartPivotRaises(data) ==
    HasDuplicateKey([i \in DOMAIN data |->
                        [index |-> data[i].Tool, column |-> data[i].File_Size]])

(***************************************************************************)
(* generate_charts.py                                                      *)
(***************************************************************************)
\* extract_size: None (here <<>>) when the identifier has no second segment
extract_size(log) == IF HasSizeSegment(log) THEN <<SizeName(log)>> ELSE <<>>

\* df['size'] = df['log'].apply(extract_size); df.dropna(subset=['size'])
ChartRows(table) ==
    LET sized == [i \in DOMAIN table |->
                    [tool |-> table[i].tool, log |-> table[i].log,
                     time_seconds |-> table[i].time_seconds,
                     size |-> extract_size(table[i].log)]]
        kept  == Select(sized, {i \in DOMAIN sized : sized[i].size # <<>>})
    IN [i \in DOMAIN kept |->
           [tool |-> kept[i].tool, log |-> kept[i].log,
            time_seconds |-> kept[i].time_seconds, size |-> kept[i].size[1]]]

\* the frame as df.pivot(index='size', columns='tool',
\* values='time_seconds') reads it
KeyedByChartSize(frame) ==
    [i \in DOMAIN frame |->
        [index |-> frame[i].size, column |-> frame[i].tool,
         value |-> TimeOf(frame[i])]]

ChartPivotFails(frame) == HasDuplicateKey(KeyedByChartSize(frame))

\* time_df.reindex([s for s in size_order if s in time_df.index])
time_df(frame) ==
    LET pivoted == Pivot(KeyedByChartSize(frame))
    IN Reindex(pivoted,
               Select(size_order, {k \in DOMAIN size_order :
                                      size_order[k] \in Range(pivoted.index)}))

(***************************************************************************)
(* The state machine                                                       *)
(***************************************************************************)
Init ==
    /\ script \in {"analyze_results", "generate_charts"}
    /\ raw \in IF script = "analyze_results" THEN Inputs ELSE ChartInputs
    /\ df = <<>>
    /\ pc = IF script = "analyze_results" THEN Stages[1] ELSE "charts_load"
    /\ error = NoError
    /\ pivot_df = <<>>
    /\ comparative_data = <<>>
    /\ files = <<>>

\* `stage` returns to main
Return(stage) == pc' = Returned(stage) /\ UNCHANGED error

\* `stage` raises
Raise(stage, type) == pc' = Raised(stage) /\ error' = Exception(type, stage)

LoadData ==
    /\ pc = "load_data"
    /\ IF \E i \in DOMAIN raw : ~HasSizeSegment(raw[i].log)
       THEN Raise("load_data", "IndexError") /\ UNCHANGED df
       ELSE df' = load_data(raw) /\ Return("load_data")
    /\ UNCHANGED <<script, raw, pivot_df, comparative_data, files>>

\* generate_time_comparison and generate_memory_comparison: pivot, reindex,
\* plot, savefig
Comparison(stage, metric, file) ==
    /\ IF PivotRaises(df)
       THEN Raise(stage, "ValueError") /\ UNCHANGED <<pivot_df, files>>
       ELSE LET table == ComparisonTable(df, metric)
            IN /\ pivot_df' = Write(pivot_df, metric, table)
               /\ \E rendered \in RenderOutcomes(table) :
                     IF rendered
                     THEN files' = Write(files, file, Image) /\ Return(stage)
                     ELSE Raise(stage, "RenderError") /\ UNCHANGED files
    /\ UNCHANGED <<script, raw, df, comparative_data>>

GenerateTimeComparison ==
    /\ pc = "generate_time_comparison"
    /\ Comparison("generate_time_comparison", "time_seconds",
                  <<"time_comparison.png">>)

GenerateMemoryComparison ==
    /\ pc = "generate_memory_comparison"
    /\ Comparison("generate_memory_comparison", "memory_mb",
                  <<"memory_comparison.png">>)

\* the chart is drawn and saved first, the table computed and saved after it
GenerateScalingAnalysis ==
    /\ pc = "generate_scaling_analysis"
    /\ \E rendered \in BOOLEAN :
          IF rendered
          THEN /\ files' = Write(Write(files, <<"scaling_analysis.png">>, Image),
                                 <<"scaling_factors.csv">>, ScalingData(df))
               /\ Return("generate_scaling_analysis")
          ELSE /\ Raise("generate_scaling_analysis", "RenderError")
               /\ UNCHANGED files
    /\ UNCHANGED <<script, raw, df, pivot_df, comparative_data>>

GenerateRankings ==
    /\ pc = "generate_rankings"
    /\ files' = WriteRankings(files, df)
    /\ Return("generate_rankings")
    /\ UNCHANGED <<script, raw, df, pivot_df, comparative_data>>

GenerateTimberSpecificAnalysis ==
    /\ pc = "generate_timber_specific_analysis"
    /\ files' = IF Len(TimberData(df)) = 0 THEN files
                ELSE Write(files, <<"timber_analysis.csv">>, TimberAnalysis(df))
    /\ Return("generate_timber_specific_analysis")
    /\ UNCHANGED <<script, raw, df, pivot_df, comparative_data>>

\* comparative_data keeps the list the loop built, whatever happens after it
GenerateComparativeAnalysis ==
    LET stage   == "generate_comparative_analysis"
        data    == ComparativeData(df)
        written == Write(files, <<"comparative_analysis.csv">>,
                         ComparativeTable(data))
    IN /\ pc = stage
       /\ comparative_data' = data
       /\ IF data = <<>>
          THEN Return(stage) /\ UNCHANGED files
          ELSE IF FormatRaises(data)
          THEN Raise(stage, "ZeroDivisionError") /\ UNCHANGED files
          ELSE IF ChartPivotRaises(data)
          THEN Raise(stage, "ValueError") /\ files' = written
          ELSE \E rendered \in BOOLEAN :
                  IF rendered
                  THEN /\ files' = Write(written, <<"comparative_analysis.png">>,
                                         Image)
                       /\ Return(stage)
                  ELSE Raise(stage, "RenderError") /\ files' = written
       /\ UNCHANGED <<script, raw, df, pivot_df>>

\* generate_charts.py, statement by statement (a script: an exception ends it)
ChartsLoad ==
    /\ pc = "charts_load"
    /\ df' = ChartRows(raw)
    /\ pc' = "charts_pivot"
    /\ UNCHANGED <<script, raw, error, pivot_df, comparative_data, files>>

ChartsPivot ==
    /\ pc = "charts_pivot"
    /\ IF ChartPivotFails(df)
       THEN /\ pc' = "failed"
            /\ error' = Exception("ValueError", "charts_pivot")
            /\ UNCHANGED pivot_df
       ELSE /\ pivot_df' = Write(pivot_df, "time_seconds", time_df(df))
            /\ pc' = "charts_plot"
            /\ UNCHANGED error
    /\ UNCHANGED <<script, raw, df, comparative_data, files>>

ChartsPlot ==
    /\ pc = "charts_plot"
    /\ \E rendered \in RenderOutcomes(pivot_df["time_seconds"]) :
          IF rendered
          THEN /\ files' = Write(files, <<"time_comparison.png">>, Image)
               /\ pc' = "done"
               /\ UNCHANGED error
          ELSE /\ pc' = "failed"
               /\ error' = Exception("RenderError", "charts_plot")
               /\ UNCHANGED files
    /\ UNCHANGED <<script, raw, df, pivot_df, comparative_data>>

Next ==
    \/ LoadData
    \/ GenerateTimeComparison
    \/ GenerateMemoryComparison
    \/ GenerateScalingAnalysis
    \/ GenerateRankings
    \/ GenerateTimberSpecificAnalysis
    \/ GenerateComparativeAnalysis
    \/ ChartsLoad
    \/ ChartsPivot
    \/ ChartsPlot

Spec == Init /\ [][Next]_vars

(***************************************************************************)
(* Where a run of main stands                                              *)
(***************************************************************************)
Analyzing == script = "analyze_results"

\* `stage` raised (the run ended in it)
FailedIn(stage) == Analyzing /\ error.stage = stage

\* `stage` ran and returned
Completed(stage) ==
    /\ Analyzing
    /\ IF error # NoError THEN StageIndex(error.stage) > StageIndex(stage)
       ELSE pc = "done" \/ StageIndex(pc) > StageIndex(stage)

Records(frame) == {frame[i] : i \in DOMAIN frame}

ScalingFile == <<"scaling_factors.csv">>
ComparativeFile == <<"comparative_analysis.csv">>

(***************************************************************************)
(* C1  Every record load_data returns has a size_label of the bucket table *)
(* and size_numeric = table[size_label]; a row whose size token is not in  *)
(* the table makes the load fail.                                          *)
(***************************************************************************)
UnknownToken(row) ==
    HasSizeSegment(row.log) /\ SizeName(row.log) \notin DOMAIN size_mapping

C1_LoadRejectsUnknownBucket ==
    (Completed("load_data") \/ FailedIn("load_data")) =>
        /\ \A r \in Records(df) :
              /\ r.size_name \in DOMAIN size_mapping
              /\ r.size_numeric = Num(size_mapping[r.size_name])
        /\ (\E row \in Records(raw) : UnknownToken(row)) => FailedIn("load_data")

(***************************************************************************)
(* C2  Whenever scaling_factors.csv is written, every tool with n >= 2     *)
(* records has exactly n-1 entries, the k-th made of its k-th and (k+1)-th *)
(* records in ascending size: the time increase is curr.time/prev.time and *)
(* the scaling factor (curr.time/prev.time)/(curr.size/prev.size), which   *)
(* is 1.000 when time and size grow by the same factor; a tool with fewer  *)
(* than 2 records has no entry, and no entry is of another tool.           *)
(***************************************************************************)
EntriesOf(table, tool) ==
    Select(table, {i \in DOMAIN table : table[i].Tool = tool})

\* the records of `tool` in the loader's order: ascending size, NaN last
RecordsOf(tool) == Select(df, {i \in DOMAIN df : df[i].tool = tool})

Proportional(prev, curr) ==
    /\ prev.time_seconds > 0 /\ curr.time_seconds > 0
    /\ IsFinite(prev.size_numeric) /\ IsFinite(curr.size_numeric)
    /\ curr.time_seconds * prev.size_numeric[1]
           = prev.time_seconds * curr.size_numeric[1]

C2_ScalingPerAdjacentPair ==
    Written(ScalingFile) =>
        LET table == files[ScalingFile]
        IN /\ \A e \in Records(table) : e.Tool \in {r.tool : r \in Records(df)}
           /\ \A tool \in {r.tool : r \in Records(df)} :
                 LET recs    == RecordsOf(tool)
                     entries == EntriesOf(table, tool)
                 IN /\ Len(entries) = IF Len(recs) >= 2 THEN Len(recs) - 1 ELSE 0
                    /\ \A k \in DOMAIN entries :
                          LET prev == recs[k]
                              curr == recs[k + 1]
                              time_ratio ==
                                  Norm(curr.time_seconds, prev.time_seconds)
                              size_ratio ==
                                  RDiv(curr.size_numeric, prev.size_numeric)
                          IN /\ ~RLess(curr.size_numeric, prev.size_numeric)
                             /\ entries[k].Size_Change
                                    = <<prev.size_name, curr.size_name>>
                             /\ entries[k].Time_Increase = Fmt(time_ratio, 2)
                             /\ entries[k].Scaling_Factor
                                    = Fmt(RDiv(time_ratio, size_ratio), 3)
                             /\ Proportional(prev, curr) =>
                                    entries[k].Scaling_Factor
                                        = [text |-> "num", scaled |-> 1000]

\* a tool with three records and so two entries, one of them of factor 1.000
C2_Witness ==
    /\ Written(ScalingFile)
    /\ \E tool \in {"grep", "timber"} :
          /\ Len(RecordsOf(tool)) = 3
          /\ Len(EntriesOf(files[ScalingFile], tool)) = 2
          /\ \E e \in Records(files[ScalingFile]) :
                e.Scaling_Factor = [text |-> "num", scaled |-> 1000]

(***************************************************************************)
(* C3  In every ranking file each tool's time rank and memory rank are the *)
(* mean of the k consecutive 1-based positions that the k tools sharing    *)
(* its value occupy in ascending order, each metric on its own, and the    *)
(* combined score is (time_rank + memory_rank) / 2; three tools tied on    *)
(* time all get 2.                                                         *)
(***************************************************************************)
Bucket(size) == {r \in Records(df) : r.size_name = size}

\* the mean of the positions less+1 .. less+k
MeanPosition(less, k) == Norm(2 * k * less + k * (k + 1), 2 * k)

\* the rank expected of a record whose value is `mine` among `values`
ExpectedRank(values, mine) ==
    MeanPosition(Cardinality({i \in DOMAIN values : values[i] < mine}),
                 Cardinality({i \in DOMAIN values : values[i] = mine}))

\* the raw times and memories of the records of a bucket, in df's order
BucketTimes(size) ==
    LET rows == Select(df, {i \in DOMAIN df : df[i].size_name = size})
    IN [i \in DOMAIN rows |-> rows[i].time_seconds]

BucketMemories(size) ==
    LET rows == Select(df, {i \in DOMAIN df : df[i].size_name = size})
    IN [i \in DOMAIN rows |-> rows[i].memory_mb]

C3_RankTieAveraging ==
    Analyzing => \A size \in {r.size_name : r \in Records(df)} :
        Written(RankingFile(size)) =>
            LET table == files[RankingFile(size)]
            IN /\ {e.Tool : e \in Records(table)}
                      = {r.tool : r \in Bucket(size)}
               /\ Len(table) = Cardinality(Bucket(size))
               /\ \A e \in Records(table) :
                     \A r \in Bucket(size) :
                         r.tool = e.Tool =>
                             /\ e.Time_Rank
                                    = ExpectedRank(BucketTimes(size),
                                                   r.time_seconds)
                             /\ e.Memory_Rank
                                    = ExpectedRank(BucketMemories(size),
                                                   r.memory_mb)
                             /\ 2 * e.Combined_Score[1] * e.Time_Rank[2]
                                      * e.Memory_Rank[2]
                                    = e.Combined_Score[2]
                                      * (e.Time_Rank[1] * e.Memory_Rank[2]
                                         + e.Memory_Rank[1] * e.Time_Rank[2])
               /\ (Len(table) = 3
                   /\ \A a, b \in Bucket(size) : a.time_seconds = b.time_seconds)
                      => \A e \in Records(table) : e.Time_Rank = Num(2)

\* three tools tied on time (all ranked 2) whose memory ranks differ
C3_Witness ==
    /\ Written(RankingFile(<<"10k">>))
    /\ LET table == files[RankingFile(<<"10k">>)]
       IN /\ Len(table) = 3
          /\ \A e \in Records(table) : e.Time_Rank = Num(2)
          /\ \E e \in Records(table) : e.Memory_Rank = <<3, 2>>
          /\ \E e \in Records(table) : e.Memory_Rank = Num(3)

(***************************************************************************)
(* C4  Once the comparative loop has run, comparative_data holds an entry  *)
(* for (bucket, tool) exactly when the bucket has a timber record and a    *)
(* record of the tool, and the tool is not timber; the entry's ratios are  *)
(* timber's time and memory over the tool's, of that bucket; a bucket      *)
(* without timber has no entry, and data without any timber record makes   *)
(* the stage return without an error and without a table.                  *)
(***************************************************************************)
ComparativeRan ==
    \/ Completed("generate_comparative_analysis")
    \/ FailedIn("generate_comparative_analysis")

HasReference(size) == \E r \in Bucket(size) : r.tool = "timber"

Below1(ratio) == ~IsNaN(ratio) /\ ratio[1] < ratio[2]

Inverse(ratio) == Norm(ratio[2], ratio[1])

PhraseMatches(said, ratio, below, other) ==
    /\ said.phrase = below <=> Below1(ratio)
    /\ Below1(ratio) => said.multiplier = Fmt(Inverse(ratio), 2)
    /\ ~Below1(ratio) => said.phrase = other /\ said.multiplier = Fmt(ratio, 2)

KeySize(r) == IF Analyzing THEN r.size_name ELSE r.size

DuplicateKeys ==
    \E i, j \in DOMAIN df :
        i < j /\ df[i].tool = df[j].tool /\ KeySize(df[i]) = KeySize(df[j])

PivotAttempted ==
    IF Analyzing
    THEN Completed("generate_time_comparison")
             \/ FailedIn("generate_time_comparison")
    ELSE pc \in {"charts_plot", "done", "failed"}

MetricValue(metric, r) ==
    IF metric = "time_seconds" THEN Num(r.time_seconds) ELSE Num(r.memory_mb)

C6_PivotInjective ==
    /\ (PivotAttempted /\ DuplicateKeys) =>
          /\ pc = "failed"
          /\ error.type = "ValueError"
          /\ error.stage \in {"generate_time_comparison", "charts_pivot"}
          /\ DOMAIN pivot_df = {}
    /\ \A metric \in DOMAIN pivot_df :
          \A key \in DOMAIN pivot_df[metric].cell :
              LET keyed == {i \in DOMAIN df :
                               KeySize(df[i]) = key[1] /\ df[i].tool = key[2]}
              IN /\ Cardinality(keyed) <= 1
                 /\ \A i \in keyed :
                       pivot_df[metric].cell[key] = MetricValue(metric, df[i])
                 /\ keyed = {} => pivot_df[metric].cell[key] = NaN

\* main stopped in the first pivot on a table with a repeated key
C6_Witness ==
    /\ DuplicateKeys
    /\ pc = "failed"
    /\ error = Exception("ValueError", "generate_time_comparison")
    /\ DOMAIN pivot_df = {}

(***************************************************************************)
(* C7  The rows of every pivot table are exactly the size buckets that     *)
(* occur in the data, in the order 10k, 100k, 1m; a bucket without a       *)
(* measurement has no row.                                                 *)
(***************************************************************************)
OccurringBuckets ==
    Select(size_order, {k \in DOMAIN size_order :
                           \E r \in Records(df) : KeySize(r) = size_order[k]})

C7_PivotRowsAreOccurringBuckets ==
    \A metric \in DOMAIN pivot_df : pivot_df[metric].index = OccurringBuckets

(***************************************************************************)
(* C8  When a tool has an adjacent pair whose prev.time_seconds or         *)
(* prev.size_numeric is zero, the scaling stage reports a division by zero *)
(* for it and emits no entry with a coerced ratio, and the entries of      *)
(* every other tool are those of the input without the degenerate tool.    *)
(***************************************************************************)
Degenerate(tool) ==
    \E k \in 1..(Len(RecordsOf(tool)) - 1) :
        \/ RecordsOf(tool)[k].time_seconds = 0
        \/ RecordsOf(tool)[k].size_numeric = Num(0)

Coerced(e) == e.Time_Increase.text # "num" \/ e.Scaling_Factor.text # "num"

\* the stage got past its chart and computed the table, or raised over it
ScalingComputed ==
    \/ Written(ScalingFile)
    \/ FailedIn("generate_scaling_analysis") /\ error.type # "RenderError"

C8_DivisionByZeroReported ==
    (Analyzing /\ ScalingComputed) =>
        \A tool \in {r.tool : r \in Records(df)} :
            Degenerate(tool) =>
                /\ error = Exception("ZeroDivisionError",
                                     "generate_scaling_analysis")
                /\ Written(ScalingFile) =>
                      /\ \A e \in Records(files[ScalingFile]) :
                            e.Tool = tool => ~Coerced(e)
                      /\ LET table == files[ScalingFile]
                         IN Select(table, {i \in DOMAIN table :
                                              table[i].Tool # tool})
                                = ScalingData(Select(df, {i \in DOMAIN df :
                                                  df[i].tool # tool}))

(***************************************************************************)
(* C9  (as claimed) A failure in one stage of main aborts only that stage: *)
(* the stages scheduled after it still run and emit their tables.          *)
(***************************************************************************)
TableStages ==
    {"generate_scaling_analysis", "generate_rankings",
     "generate_comparative_analysis"}

\* `stage` wrote a table of its own
Emitted(stage) ==
    CASE stage = "generate_scaling_analysis" -> Written(ScalingFile)
      [] stage = "generate_rankings" ->
             \E r \in Records(df) : Written(RankingFile(r.size_name))
      [] stage = "generate_comparative_analysis" -> Written(ComparativeFile)

\* `stage` has a table to write for the loaded data
HasTable(stage) ==
    CASE stage = "generate_scaling_analysis" -> TRUE
      [] stage = "generate_rankings" -> df # <<>>
      [] stage = "generate_comparative_analysis" ->
             \E r \in Records(df) :
                 HasReference(r.size_name) /\ r.tool # "timber"

RunEnded == pc \in {"done", "failed"}

\* the table-level and precondition failures of the analysis stages
PreconditionErrors == {"ValueError", "ZeroDivisionError"}

C10_TableSurvivesRenderFailure ==
    (Analyzing /\ error.type = "RenderError") =>
        /\ error.stage = "generate_scaling_analysis" => Written(ScalingFile)
        /\ error.stage = "generate_comparative_analysis"
               => Written(ComparativeFile)

====
